---- MODULE Spec2Model ----
(***************************************************************************)
(* Voice -> AI -> Voice (src/app.py).                                      *)
(*                                                                         *)
(* Two components are modelled:                                            *)
(*   - the Pipeline: the "Process audio" button handler and the three      *)
(*     functions call_stt_api, call_llm_api, call_tts_api;                 *)
(*   - the Recorder: the JavaScript of RECORDER_HTML (record / stop click  *)
(*     handlers and the asynchronous callbacks they install).              *)
(*                                                                         *)
(* Python None / an absent JSON key is the value Null; Python truthiness   *)
(* and the `or` chain are the operators Truthy and Or.                     *)
(***************************************************************************)
EXTENDS Naturals, Sequences, FiniteSets

VARIABLES
    secrets,        \* st.secrets: secret name -> value (Null when absent)
    uploaded_file,  \* st.file_uploader value: <<>> (None) or <<bytes>>
    pc,             \* position of the script run (pipeline state)
    user_text,      \* result of call_stt_api in this run
    ai_reply,       \* result of call_llm_api in this run
    tts_body,       \* resp.content written to out_path by call_tts_api
    played,         \* bytes handed to st.audio: <<>> (nothing) or <<bytes>>
    calls,          \* requests.post calls issued in this run, in order
    reports,        \* st.info / st.error / st.warning messages of this run
    has_media,      \* navigator.mediaDevices is defined in this browser
    record_disabled, \* recordButton.disabled
    stop_disabled,  \* stopButton.disabled
    status,         \* status.innerText
    pending,        \* getUserMedia promises not yet settled (record handlers awaiting)
    recorders,      \* the MediaRecorder objects created so far, in creation order
    mediaRecorder,  \* the global `mediaRecorder`: 0 (undefined) or an index of recorders
    audioChunks,    \* the global `audioChunks` array
    readers,        \* FileReaders whose readAsDataURL has not finished
    host_messages   \* messages posted to window.parent, in order

pipeVars == <<secrets, uploaded_file, pc, user_text, ai_reply, tts_body, played, calls, reports>>

recVars == <<has_media, record_disabled, stop_disabled, status, pending, recorders,
             mediaRecorder, audioChunks, readers, host_messages>>

vars == <<pipeVars, recVars>>

\* Recorder alone: most MediaRecorders (created, or awaited in a pending
\* getUserMedia) in a behaviour, and most audio samples one MediaRecorder gathers.
MaxCaptures == 2

MaxSamples == 1

\* The same two bounds where the Recorder runs interleaved with the Pipeline.
PageCaptures == 1

PageSamples == 1

----------------------------------------------------------------------------
(* Values *)

Null == "<None>"

Truthy(v) == v # Null /\ v # ""

\* Python: a or b
Or(a, b) == IF Truthy(a) THEN a ELSE b

\* The two secret names every stage looks up (the same two literals are used
\* by call_stt_api, call_llm_api and call_tts_api).
ENDPOINT_NAME == "https://eastasia.api.cognitive.microsoft.com/"
KEY_NAME == "<key literal of app.py line 112>"

SecretNames == {ENDPOINT_NAME, KEY_NAME}

SecretValues == {Null, "", "configured"}

\* Uploaded audio files the user can choose (byte sequences).
AudioBlobs == {<< >>, <<1, 2>>}

\* HTTP statuses an endpoint can answer with.
Statuses == {200, 500}

\* Raw bodies a TTS endpoint can answer with.
TtsBodies == {<< >>, <<7, 8>>}

\* A response body that is not a JSON object: resp.json() or data.get raises.
Malformed == [malformed |-> TRUE]

\* JSON objects an STT endpoint can answer with (Null = key absent).
SttBodies == [text : {Null, "", "t"}, transcript : {Null, "", "tr"}, result : {Null, "", "re"}]

\* One element of the "choices" list of an LLM answer.
ChoiceEntries == [text : {Null, "", "ct"}, has_message : {TRUE}, content : {"", "cm"}]
                 \cup [text : {Null, "", "ct"}, has_message : {FALSE}, content : {Null}]

\* JSON objects an LLM endpoint can answer with.
LlmBodies == [has_choices : {TRUE}, choices : {<< >>} \cup {<<e>> : e \in ChoiceEntries},
              response : {Null, "", "fr"}, text : {Null, "ft"}]
             \cup [has_choices : {FALSE}, choices : {<< >>},
                   response : {Null, "", "fr"}, text : {Null, "ft"}]

----------------------------------------------------------------------------
(* Pure helpers of the three stage functions *)

\* `not ENDPOINT or not KEY`
ConfigMissing == ~Truthy(secrets[ENDPOINT_NAME]) \/ ~Truthy(secrets[KEY_NAME])

\* Variant: the three fields looked up in the reverse order.
SttExtract_ResultFirst(data) == Or(Or(Or(data.result, data.transcript), data.text), "")

\* data.get("text") or data.get("transcript") or data.get("result") or ""
SttExtract(data) == Or(Or(Or(data.text, data.transcript), data.result), "")

\* choices[0].get("text") or choices[0].get("message", {}).get("content", "")
ChoiceExtract(c) ==
    Or(c.text, IF c.has_message /\ c.content # Null THEN c.content ELSE "")

\* Variant: the flat fields are consulted whenever choices[0] yields nothing.
LlmExtract_FallsThrough(data) ==
    IF data.has_choices /\ Len(data.choices) > 0 /\ Truthy(ChoiceExtract(data.choices[1]))
    THEN ChoiceExtract(data.choices[1])
    ELSE Or(Or(data.response, data.text), "")

\* the reply extraction of call_llm_api
LlmExtract(data) ==
    IF data.has_choices /\ Len(data.choices) > 0
    THEN ChoiceExtract(data.choices[1])
    ELSE Or(Or(data.response, data.text), "")

SttCall == [stage |-> "stt", payload |-> uploaded_file[1], auth |-> secrets[KEY_NAME]]

LlmCall(prompt) == [stage |-> "llm", payload |-> [prompt |-> prompt, max_tokens |-> 512],
                    auth |-> secrets[KEY_NAME]]

\* (the "voice" entry of the payload, an optional secret passed through as it
\* is, is left out)
TtsCall(text) == [stage |-> "tts", payload |-> [text |-> text],
                  auth |-> secrets[KEY_NAME]]

----------------------------------------------------------------------------
(* The script run *)

\* The state the run is left in: every run-local value at once.
RunState(p, ut, ar, tb, pl, cs, rs) ==
    /\ pc' = p
    /\ user_text' = ut
    /\ ai_reply' = ar
    /\ tts_body' = tb
    /\ played' = pl
    /\ calls' = cs
    /\ reports' = rs

\* A fresh script run: nothing of an earlier run is in scope or on the page.
FreshRun(p, rs) == RunState(p, Null, Null, << >>, << >>, << >>, rs)

\* An uncaught exception ends the script run; Streamlit shows it.
Raise == /\ pc' = "Aborted"
         /\ reports' = Append(reports, "exception")
          /\ UNCHANGED <<user_text, ai_reply, tts_body, played, calls>>

\* call_stt_api up to its requests.post, entered with the messages rs shown.
EnterStt(rs) ==
    IF ConfigMissing
    THEN RunState("Aborted", "", Null, << >>, << >>, << >>,
                  rs \o <<"stt_info", "stt_config_error", "no_transcription">>)
    ELSE RunState("Transcribing", Null, Null, << >>, << >>, <<SttCall>>,
                  rs \o <<"stt_info">>)

\* Variant: call_llm_api posts without looking at its endpoint and key.
EnterLlm_NoConfigCheck(ut, rs) ==
    RunState("Generating", ut, Null, << >>, << >>, Append(calls, LlmCall(ut)),
             rs \o <<"llm_info">>)

\* call_llm_api up to its requests.post.
EnterLlm(ut, rs) ==
    IF ConfigMissing
    THEN RunState("Aborted", ut, "", << >>, << >>, calls,
                  rs \o <<"llm_info", "llm_config_error", "no_reply">>)
    ELSE RunState("Generating", ut, Null, << >>, << >>, Append(calls, LlmCall(ut)),
                  rs \o <<"llm_info">>)

\* Variant: the handler passes the transcript, not the reply, to call_tts_api.
EnterTts_SendsTranscript(ar, rs) ==
    IF ConfigMissing
    THEN RunState("Aborted", user_text, ar, << >>, << >>, calls,
                  rs \o <<"tts_info", "tts_config_error", "tts_failed">>)
    ELSE RunState("Synthesizing", user_text, ar, << >>, << >>,
                  Append(calls, TtsCall(user_text)), rs \o <<"tts_info">>)

\* call_tts_api up to its requests.post.
EnterTts(ar, rs) ==
    IF ConfigMissing
    THEN RunState("Aborted", user_text, ar, << >>, << >>, calls,
                  rs \o <<"tts_info", "tts_config_error", "tts_failed">>)
    ELSE RunState("Synthesizing", user_text, ar, << >>, << >>, Append(calls, TtsCall(ar)),
                  rs \o <<"tts_info">>)

\* Variant: the messages of the previous run stay on the page.
ProcessClick_KeepsPage ==
    /\ pc \in {"Idle", "Done", "Aborted"}
    /\ IF uploaded_file = << >>
       THEN FreshRun("Idle", Append(reports, "no_audio"))
       ELSE EnterStt(reports)
    /\ UNCHANGED <<secrets, uploaded_file, recVars>>

\* Variant: with no uploaded file, the last message of the Recorder is transcribed.
ProcessClick_UsesRecording ==
    /\ pc \in {"Idle", "Done", "Aborted"}
    /\ IF uploaded_file = << >>
       THEN IF host_messages = << >>
            THEN FreshRun("Idle", <<"no_audio">>)
            ELSE RunState("Transcribing", Null, Null, << >>, << >>,
                          <<[stage |-> "stt",
                             payload |-> host_messages[Len(host_messages)].value.audio_base64,
                             auth |-> secrets[KEY_NAME]]>>,
                          <<"stt_info">>)
       ELSE EnterStt(<< >>)
    /\ UNCHANGED <<secrets, uploaded_file, recVars>>

\* The user presses "Process audio": the script reruns with the button True.
ProcessClick ==
    /\ pc \in {"Idle", "Done", "Aborted"}
    /\ IF uploaded_file = << >>
       THEN FreshRun("Idle", <<"no_audio">>)
       ELSE EnterStt(<< >>)
    /\ UNCHANGED <<secrets, uploaded_file, recVars>>

\* Variant: call_stt_api parses the body whatever the status code is.
SttResponse_IgnoresStatus(status_code, body) ==
    /\ pc = "Transcribing"
    /\ IF body = Malformed
       THEN Raise
       ELSE IF ~Truthy(SttExtract(body))
       THEN RunState("Aborted", SttExtract(body), Null, << >>, << >>, calls,
                     Append(reports, "no_transcription"))
       ELSE EnterLlm(SttExtract(body), Append(reports, "you_said"))
    /\ UNCHANGED <<secrets, uploaded_file, recVars>>

\* requests.post of call_stt_api returns.
SttResponse(status_code, body) ==
    /\ pc = "Transcribing"
    /\ IF status_code # 200
       THEN RunState("Aborted", "", Null, << >>, << >>, calls,
                     reports \o <<"stt_api_error", "no_transcription">>)
       ELSE IF body = Malformed
       THEN Raise
       ELSE IF ~Truthy(SttExtract(body))
       THEN RunState("Aborted", SttExtract(body), Null, << >>, << >>, calls,
                     Append(reports, "no_transcription"))
       ELSE EnterLlm(SttExtract(body), Append(reports, "you_said"))
    /\ UNCHANGED <<secrets, uploaded_file, recVars>>

\* requests.post of call_llm_api returns.
LlmResponse(status_code, body) ==
    /\ pc = "Generating"
    /\ IF status_code # 200
       THEN RunState("Aborted", user_text, "", << >>, << >>, calls,
                     reports \o <<"llm_api_error", "no_reply">>)
       ELSE IF body = Malformed
       THEN Raise
       ELSE IF ~Truthy(LlmExtract(body))
       THEN RunState("Aborted", user_text, LlmExtract(body), << >>, << >>, calls,
                     Append(reports, "no_reply"))
       ELSE EnterTts(LlmExtract(body), Append(reports, "ai_reply"))
    /\ UNCHANGED <<secrets, uploaded_file, recVars>>

\* Variant: the response body is not written to out_path; the empty temporary
\* file is played.
TtsResponse_EmptyFile(status_code, content) ==
    /\ pc = "Synthesizing"
    /\ IF status_code # 200
       THEN RunState("Aborted", user_text, ai_reply, << >>, << >>, calls,
                     reports \o <<"tts_api_error", "tts_failed">>)
       ELSE RunState("Done", user_text, ai_reply, << << >> >>, << << >> >>, calls,
                     reports \o <<"audio", "balloons">>)
    /\ UNCHANGED <<secrets, uploaded_file, recVars>>

\* requests.post of call_tts_api returns.
TtsResponse(status_code, content) ==
    /\ pc = "Synthesizing"
    /\ IF status_code # 200
       THEN RunState("Aborted", user_text, ai_reply, << >>, << >>, calls,
                     reports \o <<"tts_api_error", "tts_failed">>)
       ELSE RunState("Done", user_text, ai_reply, <<content>>, <<content>>, calls,
                     reports \o <<"audio", "balloons">>)
    /\ UNCHANGED <<secrets, uploaded_file, recVars>>

\* requests.post raises (timeout after 120 s / 60 s, transport failure).
RequestFails ==
    /\ pc \in {"Transcribing", "Generating", "Synthesizing"}
    /\ Raise
    /\ UNCHANGED <<secrets, uploaded_file, recVars>>

\* The user picks or removes a file in st.file_uploader: the script reruns with
\* the button False, so nothing of the previous run stays on the page.
Upload(f) ==
    /\ pc \in {"Idle", "Done", "Aborted"}
    /\ f # uploaded_file
    /\ uploaded_file' = f
    /\ FreshRun("Idle", << >>)
    /\ UNCHANGED <<secrets, recVars>>

\* .streamlit/secrets.toml is edited; st.secrets is read at call time.
EditSecrets(n, v) ==
    /\ secrets[n] # v
    /\ secrets' = [secrets EXCEPT ![n] = v]
    /\ UNCHANGED <<uploaded_file, pc, user_text, ai_reply, tts_body, played, calls, reports,
                   recVars>>

PipeInit ==
    /\ secrets \in [SecretNames -> SecretValues]
    /\ uploaded_file = << >>
    /\ pc = "Idle"
    /\ user_text = Null
    /\ ai_reply = Null
    /\ tts_body = << >>
    /\ played = << >>
    /\ calls = << >>
    /\ reports = << >>

PipeNext ==
    \/ ProcessClick
    \/ \E st \in Statuses, b \in SttBodies \cup {Malformed} : SttResponse(st, b)
    \/ \E st \in Statuses, b \in LlmBodies \cup {Malformed} : LlmResponse(st, b)
    \/ \E st \in Statuses, c \in TtsBodies : TtsResponse(st, c)
    \/ RequestFails
    \/ \E f \in {<< >>} \cup {<<a>> : a \in AudioBlobs} : Upload(f)
    \/ \E n \in SecretNames, v \in SecretValues : EditSecrets(n, v)


----------------------------------------------------------------------------
(* The Recorder (JavaScript of RECORDER_HTML) *)

\* The base64 alphabet; index 65 is the padding character.
B64Chars == <<"A","B","C","D","E","F","G","H","I","J","K","L","M","N","O","P",
              "Q","R","S","T","U","V","W","X","Y","Z","a","b","c","d","e","f",
              "g","h","i","j","k","l","m","n","o","p","q","r","s","t","u","v",
              "w","x","y","z","0","1","2","3","4","5","6","7","8","9","+","/","=">>

RECURSIVE Base64(_)
\* The base64 text (a sequence of characters) of a byte sequence, as
\* FileReader.readAsDataURL produces it.
Base64(bytes) ==
    IF Len(bytes) = 0 THEN << >>
    ELSE IF Len(bytes) = 1
    THEN <<B64Chars[(bytes[1] \div 4) + 1], B64Chars[((bytes[1] % 4) * 16) + 1],
           B64Chars[65], B64Chars[65]>>
    ELSE IF Len(bytes) = 2
    THEN <<B64Chars[(bytes[1] \div 4) + 1],
           B64Chars[((bytes[1] % 4) * 16 + bytes[2] \div 16) + 1],
           B64Chars[((bytes[2] % 16) * 4) + 1], B64Chars[65]>>
    ELSE <<B64Chars[(bytes[1] \div 4) + 1],
           B64Chars[((bytes[1] % 4) * 16 + bytes[2] \div 16) + 1],
           B64Chars[((bytes[2] % 16) * 4 + bytes[3] \div 64) + 1],
           B64Chars[(bytes[3] % 64) + 1]>>
         \o Base64(SubSeq(bytes, 4, Len(bytes)))

\* reader.result: the data URL, already cut at its one comma.
DataUrl(blob) == <<"data:audio/wav;base64", Base64(blob)>>

RECURSIVE Blob(_)
\* new Blob(chunks): the chunks' bytes, concatenated.
Blob(chunks) ==
    IF chunks = << >> THEN << >> ELSE Head(chunks) \o Blob(Tail(chunks))

\* The k-th audio sample the microphone hands to recorder r.
Sample(r, k) == 16 * r + k

\* recordButton.onclick up to its await. A disabled button fires no click.
RecordClick(captures) ==
    /\ ~record_disabled
    /\ IF ~has_media
       THEN /\ status' = "getUserMedia not supported in this browser."
            /\ UNCHANGED pending
       ELSE /\ Len(recorders) + pending < captures
            /\ pending' = pending + 1
            /\ UNCHANGED status
    /\ UNCHANGED <<pipeVars, has_media, record_disabled, stop_disabled, recorders, mediaRecorder,
                   audioChunks, readers, host_messages>>

\* getUserMedia resolves: the rest of the try block of recordButton.onclick.
Granted ==
    /\ pending > 0
    /\ pending' = pending - 1
    /\ recorders' = Append(recorders, [state |-> "recording", gathered |-> << >>,
                                       stop_queued |-> FALSE])
    /\ mediaRecorder' = Len(recorders) + 1
    /\ audioChunks' = << >>
    /\ status' = "Recording..."
    /\ record_disabled' = TRUE
    /\ stop_disabled' = FALSE
    /\ UNCHANGED <<pipeVars, has_media, readers, host_messages>>

\* getUserMedia rejects: the catch block of recordButton.onclick.
Denied ==
    /\ pending > 0
    /\ pending' = pending - 1
    /\ status' = "Permission denied or error"
    /\ UNCHANGED <<pipeVars, has_media, record_disabled, stop_disabled, recorders, mediaRecorder,
                   audioChunks, readers, host_messages>>

\* A recording MediaRecorder gathers one more sample of its stream.
Gather(r, samples) ==
    /\ recorders[r].state = "recording"
    /\ Len(recorders[r].gathered) < samples
    /\ recorders' = [recorders EXCEPT ![r].gathered =
                        Append(@, Sample(r, Len(@) + 1))]
    /\ UNCHANGED <<pipeVars, has_media, record_disabled, stop_disabled, status, pending,
                   mediaRecorder, audioChunks, readers, host_messages>>

\* stopButton.onclick. mediaRecorder.stop() inactivates the recorder and queues
\* the task that fires dataavailable and stop.
StopClick ==
    /\ ~stop_disabled
    /\ IF mediaRecorder # 0 /\ recorders[mediaRecorder].state # "inactive"
       THEN /\ recorders' = [recorders EXCEPT ![mediaRecorder] =
                                [@ EXCEPT !.state = "inactive", !.stop_queued = TRUE]]
            /\ status' = "Processing audio..."
       ELSE UNCHANGED <<recorders, status>>
    /\ record_disabled' = FALSE
    /\ stop_disabled' = TRUE
    /\ UNCHANGED <<pipeVars, has_media, pending, mediaRecorder, audioChunks, readers, host_messages>>

\* The task queued by stop(): ondataavailable pushes the gathered data onto the
\* global audioChunks, then onstop builds the blob from the global audioChunks
\* and starts a FileReader on it.
StopTask(r) ==
    /\ recorders[r].stop_queued
    /\ recorders' = [recorders EXCEPT ![r].stop_queued = FALSE]
    /\ audioChunks' = Append(audioChunks, recorders[r].gathered)
    /\ readers' = readers \cup {[rec |-> r, blob |-> Blob(audioChunks')]}
    /\ UNCHANGED <<pipeVars, has_media, record_disabled, stop_disabled, status, pending,
                   mediaRecorder, host_messages>>

\* reader.onloadend: the base64 part of the data URL is posted to the host page.
\* (rec is not part of the message; it records which recorder's onstop sent it.)
LoadEnd(rd) ==
    /\ rd \in readers
    /\ readers' = readers \ {rd}
    /\ host_messages' = Append(host_messages,
                               [type |-> "STREAMLIT_AUDIO",
                                value |-> [audio_base64 |-> DataUrl(rd.blob)[2]],
                                rec |-> rd.rec])
    /\ UNCHANGED <<pipeVars, has_media, record_disabled, stop_disabled, status, pending, recorders,
                   mediaRecorder, audioChunks>>

RecInit ==
    /\ has_media \in BOOLEAN
    /\ record_disabled = FALSE
    /\ stop_disabled = TRUE
    /\ status = ""
    /\ pending = 0
    /\ recorders = << >>
    /\ mediaRecorder = 0
    /\ audioChunks = << >>
    /\ readers = {}
    /\ host_messages = << >>

RecNext(captures, samples) ==
    \/ RecordClick(captures)
    \/ Granted
    \/ Denied
    \/ \E r \in 1..Len(recorders) : Gather(r, samples)
    \/ StopClick
    \/ \E r \in 1..Len(recorders) : StopTask(r)
    \/ \E rd \in readers : LoadEnd(rd)

----------------------------------------------------------------------------
(* Specifications *)

Init == PipeInit /\ RecInit

\* The page: the Recorder's callbacks interleaved with the script runs.
Next == PipeNext \/ RecNext(PageCaptures, PageSamples)

Spec == Init /\ [][Next]_vars

\* The Pipeline alone (the Recorder is never touched).
PipelineSpec == Init /\ [][PipeNext]_vars

\* The Recorder alone (no script run is triggered).
RecorderSpec == Init /\ [][RecNext(MaxCaptures, MaxSamples)]_vars

\* Each remote call returns a response or times out.
RemoteAnswers ==
    \/ \E st \in Statuses, b \in SttBodies \cup {Malformed} : SttResponse(st, b)
    \/ \E st \in Statuses, b \in LlmBodies \cup {Malformed} : LlmResponse(st, b)
    \/ \E st \in Statuses, c \in TtsBodies : TtsResponse(st, c)
    \/ RequestFails

\* The Pipeline alone, every requests.post returning or raising in the end.
FairPipelineSpec == PipelineSpec /\ WF_vars(RemoteAnswers)

----------------------------------------------------------------------------
(* Properties *)

Range(seq) == {seq[i] : i \in 1..Len(seq)}

StagesCalled(cs) == [i \in 1..Len(cs) |-> cs[i].stage]

Running == pc \in {"Transcribing", "Generating", "Synthesizing"}

Ended == pc \in {"Done", "Aborted"}

\* C1: a run whose three stages are configured and answer 200 with a non-empty
\* transcript and a non-empty reply goes on from stage to stage, ends in Done,
\* and hands to playback exactly the bytes of the Synthesize response body.
C1_SuccessEndsInDone ==
    [][/\ \A b \in SttBodies :
             (SttResponse(200, b) /\ SttExtract(b) \notin {Null, ""} /\ ~ConfigMissing)
             => pc' = "Generating"
       /\ \A b \in LlmBodies :
             (LlmResponse(200, b) /\ LlmExtract(b) \notin {Null, ""} /\ ~ConfigMissing)
             => pc' = "Synthesizing"
       /\ \A c \in TtsBodies :
             TtsResponse(200, c)
             => /\ pc' = "Done"
                /\ played' = <<c>>
                /\ StagesCalled(calls') = <<"stt", "llm", "tts">>]_vars

C1_Witness ==
    /\ pc = "Done"
    /\ played = << <<7, 8>> >>
    /\ Len(calls) = 3

\* C2: when the endpoint or the key is missing as a stage is reached, no HTTP
\* call is issued for that stage, no later stage is invoked, and the run halts
\* in Aborted with that stage's configuration error reported.
C2_MissingConfigHalts ==
    [][/\ (ProcessClick /\ uploaded_file # << >> /\ ConfigMissing)
          => /\ pc' = "Aborted"
             /\ calls' = << >>
             /\ "stt_config_error" \in Range(reports')
             /\ Range(reports') \cap {"llm_info", "tts_info"} = {}
       /\ \A b \in SttBodies :
             (SttResponse(200, b) /\ SttExtract(b) \notin {Null, ""} /\ ConfigMissing)
             => /\ pc' = "Aborted"
                /\ StagesCalled(calls') = <<"stt">>
                /\ "llm_config_error" \in Range(reports')
                /\ "tts_info" \notin Range(reports')
       /\ \A b \in LlmBodies :
             (LlmResponse(200, b) /\ LlmExtract(b) \notin {Null, ""} /\ ConfigMissing)
             => /\ pc' = "Aborted"
                /\ StagesCalled(calls') = <<"stt", "llm">>
                /\ "tts_config_error" \in Range(reports')
                /\ played' = << >>]_vars

C2_Witness ==
    /\ pc = "Aborted"
    /\ "tts_config_error" \in Range(reports)
    /\ StagesCalled(calls) = <<"stt", "llm">>

\* C3: a non-200 answer of a stage halts the run in Aborted after exactly one
\* HTTP call for that stage, and no later stage is invoked.
C3_Non200Halts ==
    [][/\ \A st \in Statuses \ {200}, b \in SttBodies \cup {Malformed} :
             SttResponse(st, b)
             => /\ pc' = "Aborted"
                /\ StagesCalled(calls') = <<"stt">>
                /\ Range(reports') \cap {"llm_info", "tts_info"} = {}
       /\ \A st \in Statuses \ {200}, b \in LlmBodies \cup {Malformed} :
             LlmResponse(st, b)
             => /\ pc' = "Aborted"
                /\ StagesCalled(calls') = <<"stt", "llm">>
                /\ "tts_info" \notin Range(reports')
       /\ \A st \in Statuses \ {200}, c \in TtsBodies :
             TtsResponse(st, c)
             => /\ pc' = "Aborted"
                /\ StagesCalled(calls') = <<"stt", "llm", "tts">>
                /\ played' = << >>]_vars

C3_Witness ==
    /\ pc = "Aborted"
    /\ "stt_api_error" \in Range(reports)
    /\ StagesCalled(calls) = <<"stt">>

\* C4: a 200 answer of Transcribe whose recognized fields are all empty or
\* absent halts the run in Aborted with the empty-result cause and Generate is
\* never invoked; and an aborted run never shows a remote-call cause together
\* with the empty-result cause of the same stage.
C4_EmptyResultDistinct ==
    /\ (pc = "Aborted" /\ reports = <<"stt_info", "no_transcription">>)
       => (user_text = "" /\ StagesCalled(calls) = <<"stt">>)
    /\ ~({"stt_api_error", "no_transcription"} \subseteq Range(reports))
    /\ ~({"llm_api_error", "no_reply"} \subseteq Range(reports))

\* The value the first of text, transcript, result with a non-empty value has.
FirstMatch(b) ==
    IF b.text \notin {Null, ""} THEN b.text
    ELSE IF b.transcript \notin {Null, ""} THEN b.transcript
    ELSE IF b.result \notin {Null, ""} THEN b.result
    ELSE ""

\* C5: the transcript of a 200 STT answer is the value of the first of the
\* fields text, transcript, result that has one, and "" only if none has.
C5_TranscriptFirstMatch ==
    [][\A b \in SttBodies :
          SttResponse(200, b)
          => /\ user_text' = FirstMatch(b)
             /\ (user_text' = "") <=> (\A f \in {b.text, b.transcript, b.result} :
                                          f \in {Null, ""})]_vars

C5_Witness ==
    /\ pc = "Generating"
    /\ user_text = "tr"
    /\ calls[2].payload.prompt = "tr"

\* What choices[0] supplies: its text, else its message.content, else nothing.
ChoiceReply(b) ==
    IF ~b.has_choices \/ b.choices = << >> THEN ""
    ELSE IF b.choices[1].text \notin {Null, ""} THEN b.choices[1].text
    ELSE IF b.choices[1].has_message /\ b.choices[1].content \notin {Null, ""}
    THEN b.choices[1].content
    ELSE ""

\* The flat fallback: response, else text, else nothing.
FlatReply(b) ==
    IF b.response \notin {Null, ""} THEN b.response
    ELSE IF b.text \notin {Null, ""} THEN b.text
    ELSE ""

\* C6 as stated: the reply of a 200 LLM answer is what choices[0] supplies,
\* and the flat response / text value whenever choices supplies no reply.
C6_FlatFallbackAlways ==
    [][\A b \in LlmBodies :
          LlmResponse(200, b)
          => ai_reply' = (IF ChoiceReply(b) # "" THEN ChoiceReply(b) ELSE FlatReply(b))]_vars

\* C6 amended: the reply of a 200 LLM answer is what choices[0] supplies (or
\* "") when choices is a non-empty list, and the flat response / text value
\* only when the choices field is absent or an empty list.
C6_FlatFallbackWithoutChoices ==
    [][\A b \in LlmBodies :
          LlmResponse(200, b)
          => ai_reply' = (IF b.has_choices /\ b.choices # << >>
                          THEN ChoiceReply(b) ELSE FlatReply(b))]_vars

C6_Witness ==
    /\ pc = "Synthesizing"
    /\ ai_reply = "fr"
    /\ calls[3].payload.text = "fr"

\* C7: the stages are called in the order Transcribe, Generate, Synthesize,
\* one HTTP call each at most and one request in flight at most; Generate is
\* sent the non-empty transcript of this run and Synthesize its non-empty reply.
C7_StrictOrderOneCallEach ==
    /\ \E n \in 0..3 : StagesCalled(calls) = SubSeq(<<"stt", "llm", "tts">>, 1, n)
    /\ pc = "Idle" => calls = << >>
    /\ pc = "Transcribing" => Len(calls) = 1
    /\ pc = "Generating" => Len(calls) = 2
    /\ pc \in {"Synthesizing", "Done"} => Len(calls) = 3
    /\ Len(calls) >= 1 => calls[1].payload = uploaded_file[1]
    /\ Len(calls) >= 2 => (user_text \notin {Null, ""} /\ calls[2].payload.prompt = user_text)
    /\ Len(calls) >= 3 => (ai_reply \notin {Null, ""} /\ calls[3].payload.text = ai_reply)

C7_Witness ==
    /\ pc = "Done"
    /\ StagesCalled(calls) = <<"stt", "llm", "tts">>
    /\ calls[2].payload.prompt = "re"
    /\ calls[3].payload.text = "cm"

\* C8: a started run ends in Done or Aborted, the "Process audio" button is
\* then available again, and the run it starts begins at Transcribe with
\* nothing of the earlier run: its state is the one a first run would have.
C8_RunEndsAndNextRunIsFresh ==
    /\ Running ~> Ended
    /\ [](~Running => ENABLED ProcessClick)
    /\ [][ProcessClick
          => /\ ai_reply' = Null /\ tts_body' = << >> /\ played' = << >>
             /\ \/ uploaded_file = << >> /\ pc' = "Idle" /\ calls' = << >>
                   /\ user_text' = Null /\ reports' = <<"no_audio">>
                \/ uploaded_file # << >> /\ ConfigMissing /\ pc' = "Aborted" /\ calls' = << >>
                   /\ user_text' = ""
                   /\ reports' = <<"stt_info", "stt_config_error", "no_transcription">>
                \/ uploaded_file # << >> /\ ~ConfigMissing /\ pc' = "Transcribing"
                   /\ user_text' = Null /\ reports' = <<"stt_info">>
                   /\ StagesCalled(calls') = <<"stt">>
                   /\ calls'[1].payload = uploaded_file[1]]_vars

C8_Witness ==
    /\ pc = "Aborted"
    /\ reports = <<"stt_info", "you_said", "llm_info", "ai_reply", "tts_info", "exception">>
    /\ ENABLED ProcessClick

\* The MediaRecorders that are recording.
Active == {r \in 1..Len(recorders) : recorders[r].state = "recording"}

\* C9: at most one capture is active, the active capture is the one the stop
\* button stops, every stopped capture delivers one message at most, and the
\* blob of a message is exactly the audio its own capture gathered.
C9_OneCaptureOwnChunks ==
    /\ Cardinality(Active) <= 1
    /\ \A r \in Active : mediaRecorder = r
    /\ \A r \in 1..Len(recorders) :
          Cardinality({i \in 1..Len(host_messages) : host_messages[i].rec = r})
          + Cardinality({rd \in readers : rd.rec = r})
          + (IF recorders[r].stop_queued THEN 1 ELSE 0)
          = (IF recorders[r].state = "inactive" THEN 1 ELSE 0)
    /\ \A rd \in readers : rd.blob = recorders[rd.rec].gathered
    /\ \A i \in 1..Len(host_messages) :
          host_messages[i].value.audio_base64 = Base64(recorders[host_messages[i].rec].gathered)

====
